---- MODULE Spec2Model ----
(***************************************************************************)
(* Region-guided report generation: the orchestration pipeline             *)
(* (ReportGenerationModel.forward / generate), its dense <-> compacted     *)
(* mask handling, and the evaluation loops that consume its outputs        *)
(* (get_metric_scores, evaluate_language_model).                           *)
(*                                                                         *)
(* Specifications:                                                         *)
(*   SpecForward  one call of forward (training / evaluation) or generate  *)
(*                on one batch, for every detected / predicted / ground    *)
(*                truth mask of the grid;                                  *)
(*   SpecMask     compaction of a dense tensor by a mask and its scatter;  *)
(*   Spec         the loop of get_metric_scores over a test loader;        *)
(*   SpecGenLoop  the loop of evaluate_language_model over a test loader.  *)
(***************************************************************************)
EXTENDS Integers, Sequences, FiniteSets, TLC

(***************************************************************************)
(* Bounds of the model.  The program works on 29 regions per image and on  *)
(* batches of 4 images; the model keeps the grid small.                    *)
(***************************************************************************)
NumRegions == 2

MaxBatchSize == 2

\* the batches an evaluation loop reads before the loader is exhausted
MaxBatches == 3

\* the largest sum of box areas (in pixels) a region accumulates
MaxArea == 6

\* most sentences in the report whose near-duplicates are suppressed
MaxSentences == 3

VARIABLES
    \* SpecForward: one pipeline call
    call,       \* the mode and the arguments of the call
    fpc,        \* "start" before the call, "done" after it
    ret,        \* what the call returned
    lm_calls,   \* the language-model invocations the call made
    \* SpecMask: compaction and scatter of one dense tensor
    dense,      \* the dense tensor X, [batch_size x 29]
    mask,       \* the boolean mask M, [batch_size x 29]
    flat,       \* X[M]
    flat_rows,  \* X.reshape(-1)[M.reshape(-1)]
    restored,   \* the compacted tensor scattered back by M
    mpc,        \* "start", "compacted", "scattered"
    \* Spec: get_metric_scores
    pc,           \* "loop", "try", "after_try", "unpack", "returned", "raised"
    batches_read, \* the batches taken from test_loader so far (num_batch + 1)
    batch,        \* the locals of the iteration: the batch and its ground truth
    num_images,
    oom,
    e,            \* the exception the except clause caught in this iteration
    output,       \* the local `output`
    output_of,    \* history: the batch whose model call assigned output
    exc,          \* the exception that left get_metric_scores, or "none"
    scores,       \* the three accumulator groups
    before,       \* history: num_images and scores when the batch was read
    sums,         \* what the accumulators hold: running sums, confusion counts
    metrics,      \* the scores computed once the loop has ended
    \* SpecGenLoop: evaluate_language_model
    gpc,          \* "loop", "generate", "assemble", "returned", "raised"
    g_batches_read,
    g_batch,
    g_output,     \* the local `output`
    g_exc,        \* the exception that left evaluate_language_model, or "none"
    generated_sentences, \* gen_and_ref_sentences["generated_sentences"]
    generated_reports,   \* gen_and_ref_reports["generated_reports"]
    removed_similar_generated_sentences,
    \* SpecOrder: get_metric_scores over a test loader and over its reverse
    opc,          \* "start", "looping", "done"
    loader,       \* the test loader: a sequence of batches
    forth,        \* the run over the loader
    back,         \* the run over the reversed loader
    \* SpecDedup: near-duplicate suppression in one generated report
    dpc,          \* "start", "done"
    report_sentences,  \* the sentences of the report, in region order
    deduplicated,      \* the sentences retained and the sentences removed
    similarity         \* the similarity scorer: the score of every two sentences

fvars == <<call, fpc, ret, lm_calls>>

mvars == <<dense, mask, flat, flat_rows, restored, mpc>>

lvars == <<pc, batches_read, batch, num_images, oom, e, output, output_of, exc,
           scores, before, sums, metrics>>

gvars == <<gpc, g_batches_read, g_batch, g_output, g_exc, generated_sentences,
           generated_reports, removed_similar_generated_sentences>>

ovars == <<opc, loader, forth, back>>

dvars == <<dpc, report_sentences, deduplicated, similarity>>

vars == <<fvars, mvars, lvars, gvars, ovars, dvars>>

(***************************************************************************)
(* Dense grid and masks.                                                   *)
(***************************************************************************)
Regions == 1..NumRegions

BatchSizes == 1..MaxBatchSize

\* boolean tensors of shape [batch_size x 29]
Mask(n) == [1..n -> [Regions -> BOOLEAN]]

AllFalse(n) == [i \in 1..n |-> [r \in Regions |-> FALSE]]

AllTrue(n) == [i \in 1..n |-> [r \in Regions |-> TRUE]]

Not(A) == [i \in DOMAIN A |-> [r \in DOMAIN A[i] |-> ~A[i][r]]]

\* the slots (image, region) of a batch of n images
Slots(n) == (1..n) \X Regions

\* position of slot (i, r) in a tensor whose first dimension is batch_size * 29
FlatIndex(i, r) == (i - 1) * NumRegions + r

\* the slots at which a mask is true
TrueSlots(M) == {s \in Slots(Len(M)) : M[s[1]][s[2]]}

\* the position of slot s among the slots V taken in row-major order
Rank(s, V) ==
    Cardinality({t \in V : FlatIndex(t[1], t[2]) <= FlatIndex(s[1], s[2])})

\* input_ids: [(batch_size * 29) x seq_len], one sentence for every region of
\* every image; a row is identified by the slot whose sentence it holds
InputIds(n) ==
    [k \in 1..(n * NumRegions) |->
        [tensor |-> "input_ids",
         image |-> ((k - 1) \div NumRegions) + 1,
         region |-> ((k - 1) % NumRegions) + 1]]

\* attention_mask: [(batch_size * 29) x seq_len], laid out as input_ids
AttentionMask(n) ==
    [k \in 1..(n * NumRegions) |->
        [tensor |-> "attention_mask",
         image |-> ((k - 1) \div NumRegions) + 1,
         region |-> ((k - 1) % NumRegions) + 1]]

\* top_region_features: [batch_size x 29 x 1024], one vector per slot
TopRegionFeatures(n) ==
    [i \in 1..n |-> [r \in Regions |->
        [tensor |-> "region_features", image |-> i, region |-> r]]]

(***************************************************************************)
(* Tensor operations used by the pipeline.                                 *)
(***************************************************************************)
\* torch.logical_and of two [batch_size x 29] masks
LogicalAnd(A, B) == [i \in DOMAIN A |-> [r \in DOMAIN A[i] |-> A[i][r] /\ B[i][r]]]

ReshapeColumnMajor(M) ==
    [k \in 1..(Len(M) * NumRegions) |->
        M[((k - 1) % Len(M)) + 1][((k - 1) \div Len(M)) + 1]]

\* mask.reshape(-1): [batch_size x 29] -> [(batch_size * 29)], row-major
RECURSIVE Reshape(_)
Reshape(M) == IF M = <<>> THEN <<>> ELSE Head(M) \o Reshape(Tail(M))

RECURSIVE IndexRowsReversed(_, _)
IndexRowsReversed(rows, keep) ==
    IF rows = <<>> THEN <<>>
    ELSE IndexRowsReversed(Tail(rows), Tail(keep))
         \o (IF Head(keep) THEN <<Head(rows)>> ELSE <<>>)

\* tensor[keep] for a 1-D boolean mask over the first dimension: the rows at
\* the true positions, in increasing position
RECURSIVE IndexRows(_, _)
IndexRows(rows, keep) ==
    IF rows = <<>> THEN <<>>
    ELSE (IF Head(keep) THEN <<Head(rows)>> ELSE <<>>)
         \o IndexRows(Tail(rows), Tail(keep))

\* tensor[mask] for a 2-D boolean mask over the first two dimensions: the
\* entries at the true positions, image by image and region by region
RECURSIVE IndexGrid(_, _)
IndexGrid(X, M) ==
    IF X = <<>> THEN <<>>
    ELSE IndexRows(Head(X), Head(M)) \o IndexGrid(Tail(X), Tail(M))

(***************************************************************************)
(* Return values.  forward and generate return either the integer -1 or a  *)
(* tuple; a value records which, the names of the tuple's items in order,  *)
(* and the two masks a tuple carries.                                      *)
(***************************************************************************)
Sentinel == -1

IntValue(v) ==
    [kind |-> "int", val |-> v, items |-> <<>>,
     class_detected |-> <<>>, selected_regions |-> <<>>, output_ids |-> <<>>]

TupleValue(items, det, sel) ==
    [kind |-> "tuple", val |-> 0, items |-> items,
     class_detected |-> det, selected_regions |-> sel, output_ids |-> <<>>]

\* the tuple generate returns: it also carries the generated sequences
GeneratedValue(items, det, sel, output_ids) ==
    [kind |-> "tuple", val |-> 0, items |-> items,
     class_detected |-> det, selected_regions |-> sel, output_ids |-> output_ids]

\* the call did not return: it raised the named exception
RaisedValue(exception) ==
    [kind |-> "raise", val |-> 0, items |-> <<exception>>,
     class_detected |-> <<>>, selected_regions |-> <<>>, output_ids |-> <<>>]

\* no value yet (before the call; a local that was never assigned)
Unbound ==
    [kind |-> "unbound", val |-> 0, items |-> <<>>,
     class_detected |-> <<>>, selected_regions |-> <<>>, output_ids |-> <<>>]

\* Python's `output == -1`
IsSentinel(value) == value.kind = "int" /\ value.val = Sentinel

(***************************************************************************)
(* External collaborators of the pipeline.                                 *)
(***************************************************************************)
\* BinaryClassifierRegionSelection: the classifier's raw prediction is masked
\* by class_detected; the selected features are those of the selected slots
BinaryClassifierRegionSelection(top_region_features, class_detected, prediction) ==
    LET selected_regions == LogicalAnd(prediction, class_detected)
    IN [loss |-> "classifier_loss_region_selection",
        selected_regions |-> selected_regions,
        selected_region_features |-> IndexGrid(top_region_features, selected_regions)]

\* LanguageModel.forward: throws on an empty input
LanguageModelForward(valid_input_ids, valid_attention_mask, valid_region_features) ==
    [invocation |-> [fn |-> "forward",
                     input_ids |-> valid_input_ids,
                     attention_mask |-> valid_attention_mask,
                     region_features |-> valid_region_features],
     raises |-> Len(valid_input_ids) = 0 \/ Len(valid_region_features) = 0]

\* LanguageModel.generate: throws on an empty input; one output row per
\* feature row, in the order of the feature rows
LanguageModelGenerate(selected_region_features) ==
    [invocation |-> [fn |-> "generate",
                     input_ids |-> <<>>,
                     attention_mask |-> <<>>,
                     region_features |-> selected_region_features],
     raises |-> Len(selected_region_features) = 0,
     output_ids |-> [k \in DOMAIN selected_region_features |->
                        [tensor |-> "output_ids",
                         image |-> selected_region_features[k].image,
                         region |-> selected_region_features[k].region]]]

(***************************************************************************)
(* ReportGenerationModel.                                                  *)
(***************************************************************************)
TrainingMaskDetectedOnly(class_detected, region_has_sentence) == class_detected

\* valid = torch.logical_and(class_detected, region_has_sentence)
TrainingMask(class_detected, region_has_sentence) ==
    LogicalAnd(class_detected, region_has_sentence)

get_valid_decoder_input_for_training(class_detected, region_has_sentence, input_ids, attention_mask, region_features) ==
    LET valid == TrainingMask(class_detected, region_has_sentence)
        valid_reshaped == Reshape(valid)
    IN [input_ids |-> IndexRows(input_ids, valid_reshaped),
        attention_mask |-> IndexRows(attention_mask, valid_reshaped),
        region_features |-> IndexGrid(region_features, valid)]

get_valid_decoder_input_column_major(selected_regions, input_ids, attention_mask) ==
    LET selected_reshaped == ReshapeColumnMajor(selected_regions)
    IN [input_ids |-> IndexRows(input_ids, selected_reshaped),
        attention_mask |-> IndexRows(attention_mask, selected_reshaped)]

get_valid_decoder_input_for_evaluation(selected_regions, input_ids, attention_mask) ==
    LET selected_reshaped == Reshape(selected_regions)
    IN [input_ids |-> IndexRows(input_ids, selected_reshaped),
        attention_mask |-> IndexRows(attention_mask, selected_reshaped)]

NeverEmpty(rows) == FALSE

\* valid_input_ids.shape[0] == 0 (forward), selected_region_features.shape[0] == 0
\* (generate)
IsEmpty(rows) == Len(rows) = 0

\* the tuples forward and generate return, by the names of their items
TrainingPretrainItems == <<"obj_detector_loss_dict", "classifier_loss_region_selection">>

TrainingItems ==
    <<"obj_detector_loss_dict", "classifier_loss_region_selection", "language_model_loss">>

EvaluationPretrainItems ==
    <<"obj_detector_loss_dict", "classifier_loss_region_selection",
      "detections", "class_detected", "selected_regions">>

EvaluationItems ==
    <<"obj_detector_loss_dict", "classifier_loss_region_selection",
      "language_model_loss", "detections", "class_detected", "selected_regions">>

GenerateItems == <<"output_ids", "selected_regions", "detections", "class_detected">>

\* forward with self.training set
forward_training(pretrain_without_lm_model, n, class_detected, prediction, region_has_sentence) ==
    LET top_region_features == TopRegionFeatures(n)
        classifier == BinaryClassifierRegionSelection(
                          top_region_features, class_detected, prediction)
        valid == get_valid_decoder_input_for_training(
                     class_detected, region_has_sentence,
                     InputIds(n), AttentionMask(n), top_region_features)
        lm == LanguageModelForward(
                  valid.input_ids, valid.attention_mask, valid.region_features)
    IN IF pretrain_without_lm_model
       THEN [ret |-> TupleValue(TrainingPretrainItems, <<>>, <<>>), lm_calls |-> <<>>]
       ELSE IF IsEmpty(valid.input_ids)
       THEN [ret |-> IntValue(Sentinel), lm_calls |-> <<>>]
       ELSE IF lm.raises
       THEN [ret |-> RaisedValue("language model: empty input"),
             lm_calls |-> <<lm.invocation>>]
       ELSE [ret |-> TupleValue(TrainingItems, <<>>, <<>>),
             lm_calls |-> <<lm.invocation>>]

\* forward_evaluation, had it compacted by the ground-truth mask as training does
forward_evaluation_oracle(pretrain_without_lm_model, n, class_detected, prediction, region_has_sentence) ==
    LET classifier == BinaryClassifierRegionSelection(
                          TopRegionFeatures(n), class_detected, prediction)
        valid == get_valid_decoder_input_for_training(
                     class_detected, region_has_sentence,
                     InputIds(n), AttentionMask(n), TopRegionFeatures(n))
        lm == LanguageModelForward(
                  valid.input_ids, valid.attention_mask, valid.region_features)
    IN IF pretrain_without_lm_model
       THEN [ret |-> TupleValue(EvaluationPretrainItems, class_detected,
                                classifier.selected_regions),
             lm_calls |-> <<>>]
       ELSE IF IsEmpty(valid.input_ids)
       THEN [ret |-> IntValue(Sentinel), lm_calls |-> <<>>]
       ELSE [ret |-> TupleValue(EvaluationItems, class_detected,
                                classifier.selected_regions),
             lm_calls |-> <<lm.invocation>>]

evaluation_with_late_pretrain_return(pretrain_without_lm_model, n, class_detected, selected_regions, selected_region_features) ==
    LET valid == get_valid_decoder_input_for_evaluation(
                     selected_regions, InputIds(n), AttentionMask(n))
        lm == LanguageModelForward(
                  valid.input_ids, valid.attention_mask, selected_region_features)
    IN IF Len(Reshape(selected_regions)) # Len(InputIds(n))
       THEN [ret |-> RaisedValue("IndexError"), lm_calls |-> <<>>]
       ELSE IF IsEmpty(valid.input_ids)
       THEN [ret |-> IntValue(Sentinel), lm_calls |-> <<>>]
       ELSE IF pretrain_without_lm_model
       THEN [ret |-> TupleValue(EvaluationPretrainItems, class_detected, selected_regions),
             lm_calls |-> <<>>]
       ELSE IF lm.raises
       THEN [ret |-> RaisedValue("language model: empty input"),
             lm_calls |-> <<lm.invocation>>]
       ELSE [ret |-> TupleValue(EvaluationItems, class_detected, selected_regions),
             lm_calls |-> <<lm.invocation>>]

\* forward with self.training not set, from the result of the region selection
\* on: tensor[mask] raises IndexError when the mask is not as long as the tensor
evaluation_after_selection(pretrain_without_lm_model, n, class_detected, selected_regions, selected_region_features) ==
    LET valid == get_valid_decoder_input_for_evaluation(
                     selected_regions, InputIds(n), AttentionMask(n))
        valid_region_features == selected_region_features
        lm == LanguageModelForward(
                  valid.input_ids, valid.attention_mask, valid_region_features)
    IN IF pretrain_without_lm_model
       THEN [ret |-> TupleValue(EvaluationPretrainItems, class_detected, selected_regions),
             lm_calls |-> <<>>]
       ELSE IF Len(Reshape(selected_regions)) # Len(InputIds(n))
       THEN [ret |-> RaisedValue("IndexError"), lm_calls |-> <<>>]
       ELSE IF IsEmpty(valid.input_ids)
       THEN [ret |-> IntValue(Sentinel), lm_calls |-> <<>>]
       ELSE IF lm.raises
       THEN [ret |-> RaisedValue("language model: empty input"),
             lm_calls |-> <<lm.invocation>>]
       ELSE [ret |-> TupleValue(EvaluationItems, class_detected, selected_regions),
             lm_calls |-> <<lm.invocation>>]

\* forward with self.training not set
forward_evaluation(pretrain_without_lm_model, n, class_detected, prediction, region_has_sentence) ==
    LET top_region_features == TopRegionFeatures(n)
        classifier == BinaryClassifierRegionSelection(
                          top_region_features, class_detected, prediction)
    IN evaluation_after_selection(pretrain_without_lm_model, n, class_detected,
                                  classifier.selected_regions,
                                  classifier.selected_region_features)

forward(training, pretrain_without_lm_model, n, class_detected, prediction, region_has_sentence) ==
    IF training
    THEN forward_training(pretrain_without_lm_model, n, class_detected,
                          prediction, region_has_sentence)
    ELSE forward_evaluation(pretrain_without_lm_model, n, class_detected,
                            prediction, region_has_sentence)

\* generate, from the result of the region selection on
generate_after_selection(n, class_detected, selected_regions, selected_region_features) ==
    LET lm == LanguageModelGenerate(selected_region_features)
    IN IF IsEmpty(selected_region_features)
       THEN [ret |-> IntValue(Sentinel), lm_calls |-> <<>>]
       ELSE IF lm.raises
       THEN [ret |-> RaisedValue("language model: empty input"),
             lm_calls |-> <<lm.invocation>>]
       ELSE [ret |-> GeneratedValue(GenerateItems, class_detected, selected_regions,
                                    lm.output_ids),
             lm_calls |-> <<lm.invocation>>]

generate_returning_prediction(n, class_detected, prediction) ==
    LET top_region_features == TopRegionFeatures(n)
        classifier == BinaryClassifierRegionSelection(
                          top_region_features, class_detected, prediction)
        selected_region_features == classifier.selected_region_features
        lm == LanguageModelGenerate(selected_region_features)
    IN IF IsEmpty(selected_region_features)
       THEN [ret |-> IntValue(Sentinel), lm_calls |-> <<>>]
       ELSE IF lm.raises
       THEN [ret |-> RaisedValue("language model: empty input"),
             lm_calls |-> <<lm.invocation>>]
       ELSE [ret |-> GeneratedValue(GenerateItems, class_detected, prediction,
                                    lm.output_ids),
             lm_calls |-> <<lm.invocation>>]

generate(n, class_detected, prediction) ==
    LET top_region_features == TopRegionFeatures(n)
        classifier == BinaryClassifierRegionSelection(
                          top_region_features, class_detected, prediction)
    IN generate_after_selection(n, class_detected, classifier.selected_regions,
                                classifier.selected_region_features)

(***************************************************************************)
(* Report assembly.  A generated sentence is identified by the slot it was *)
(* generated for; the similarity scorer is a table that gives the score of *)
(* the sentences of every two regions of an image.                         *)
(***************************************************************************)
\* BERTSCORE_SIMILARITY_THRESHOLD = 0.9
BERTSCORE_SIMILARITY_THRESHOLD == [kind |-> "number", num |-> 9, den |-> 10]

\* scores the scorer gives: below the threshold, the threshold, above it
ScoreSamples ==
    {[kind |-> "number", num |-> 4, den |-> 5],
     [kind |-> "number", num |-> 9, den |-> 10],
     [kind |-> "number", num |-> 1, den |-> 1]}

\* x >= y for two floats that are numbers
AtLeast(x, y) == x.num * y.den >= y.num * x.den

\* the scorers over the sentences of the regions K
SimilarityTables(K) ==
    [{pair \in SUBSET K : Cardinality(pair) = 2} -> ScoreSamples]

\* score(a, b) for two sentences of one image
ScoreOf(table, a, b) == table[{a.region, b.region}]

\* the scan of near-duplicate suppression: a sentence whose score with a
\* sentence already retained reaches the threshold is dropped and recorded
\* with the first such sentence and the score; any other sentence is retained
RECURSIVE ScanSentences(_, _, _, _, _)
ScanSentences(rest, retained, removed, table, threshold) ==
    IF rest = <<>>
    THEN [retained |-> retained, removed |-> removed]
    ELSE LET sentence == Head(rest)
             similar == {k \in DOMAIN retained :
                            AtLeast(ScoreOf(table, retained[k], sentence), threshold)}
         IN IF similar = {}
            THEN ScanSentences(Tail(rest), Append(retained, sentence), removed,
                               table, threshold)
            ELSE LET first == CHOOSE k \in similar : \A j \in similar : k <= j
                 IN ScanSentences(
                        Tail(rest), retained,
                        Append(removed,
                               [sentence |-> sentence,
                                similar_to |-> retained[first],
                                score |-> ScoreOf(table, retained[first], sentence)]),
                        table, threshold)

\* near-duplicate suppression within one report
remove_duplicate_generated_sentences(gen_sents_single_image, table, threshold) ==
    ScanSentences(gen_sents_single_image, <<>>, <<>>, table, threshold)

\* the number of regions selected in the images before image i
NumSelectedBefore(selected_regions, i) ==
    Cardinality({s \in (DOMAIN selected_regions) \X (DOMAIN selected_regions[1]) :
                    s[1] < i /\ selected_regions[s[1]][s[2]]})

\* get_generated_and_reference_reports: the sentences of the batch are cut
\* into one run per image, as long as the number of regions selected in the
\* image; each run, after near-duplicate suppression, is the image's report
get_generated_and_reference_reports(generated_sentences_for_selected_regions, selected_regions, table, threshold) ==
    LET Images == DOMAIN selected_regions
        gen_sents(i) ==
            SubSeq(generated_sentences_for_selected_regions,
                   NumSelectedBefore(selected_regions, i) + 1,
                   NumSelectedBefore(selected_regions, i + 1))
        report(i) == remove_duplicate_generated_sentences(gen_sents(i), table, threshold)
    IN [generated_reports |-> [i \in Images |-> report(i).retained],
        removed_similar_generated_sentences |-> [i \in Images |-> report(i).removed]]

(***************************************************************************)
(* The accumulators of get_metric_scores and the arithmetic of its         *)
(* finalization.  A float is the exact quotient of two naturals, nan or    *)
(* inf: rounding is not modelled.                                          *)
(***************************************************************************)
\* torch.zeros(29)
Zeros == [r \in Regions |-> 0]

\* a torchmetrics metric (num_classes=2) right after its construction: the
\* confusion counts of the positive class, no sample seen yet
NoCounts == [tp |-> 0, fp |-> 0, fn |-> 0, tn |-> 0]

Subsets == {"all", "normal", "abnormal"}

MetricNames == {"precision", "recall", "f1"}

\* the accumulators as get_metric_scores constructs them
ZeroSums ==
    [obj_detector_scores |->
         [sum_intersection_area_per_region |-> Zeros,
          sum_union_area_per_region |-> Zeros,
          sum_region_detected |-> Zeros],
     region_selection_scores |->
         [subset \in Subsets |-> [metric \in MetricNames |-> NoCounts]],
     region_abnormal_scores |-> [metric \in MetricNames |-> NoCounts]]

\* no score has been computed
NotComputed == [computed |-> FALSE]

NaN == [kind |-> "nan", num |-> 0, den |-> 1]

Infinity == [kind |-> "inf", num |-> 0, den |-> 1]

RECURSIVE GCD(_, _)
GCD(a, b) == IF b = 0 THEN a ELSE GCD(b, a % b)

\* the float a / b for b > 0, in lowest terms
Number(a, b) == [kind |-> "number", num |-> a \div GCD(a, b), den |-> b \div GCD(a, b)]

\* a / b on float tensors: 0 / 0 is nan, a / 0 is inf for a > 0
TrueDivide(a, b) ==
    IF b # 0 THEN Number(a, b) ELSE IF a = 0 THEN NaN ELSE Infinity

\* x + y on floats
Plus(x, y) ==
    IF x.kind = "nan" \/ y.kind = "nan" THEN NaN
    ELSE IF x.kind = "inf" \/ y.kind = "inf" THEN Infinity
    ELSE Number(x.num * y.den + y.num * x.den, x.den * y.den)

\* torch.sum of a tensor of sums (areas, counts)
RECURSIVE TorchSum(_)
TorchSum(xs) == IF xs = <<>> THEN 0 ELSE Head(xs) + TorchSum(Tail(xs))

\* torch.sum of a tensor of quotients
RECURSIVE TorchSumFloats(_)
TorchSumFloats(xs) ==
    IF xs = <<>> THEN Number(0, 1) ELSE Plus(Head(xs), TorchSumFloats(Tail(xs)))

\* the confusion counts of predicted against target over the slots of gate
ConfusionCounts(predicted, target, gate) ==
    LET Count(p, t) ==
            Cardinality({s \in Slots(Len(gate)) :
                /\ gate[s[1]][s[2]]
                /\ predicted[s[1]][s[2]] = p
                /\ target[s[1]][s[2]] = t})
    IN [tp |-> Count(TRUE, TRUE), fp |-> Count(TRUE, FALSE),
        fn |-> Count(FALSE, TRUE), tn |-> Count(FALSE, FALSE)]

\* metric.update: the counts of a batch are added to the counts held
AddCounts(c, d) ==
    [tp |-> c.tp + d.tp, fp |-> c.fp + d.fp, fn |-> c.fn + d.fn, tn |-> c.tn + d.tn]

\* update_object_detector_metrics: for every region, the areas of intersection
\* and of union of the predicted and the ground-truth box (sets of pixels) are
\* added over the images in which the region was detected, and so is the
\* number of those images
update_object_detector_metrics(obj_detector_scores, detections, image_targets, class_detected) ==
    LET Images == DOMAIN class_detected
        Intersection(r) ==
            TorchSum([i \in Images |->
                IF class_detected[i][r]
                THEN Cardinality(detections[i][r] \cap image_targets[i][r]) ELSE 0])
        Union(r) ==
            TorchSum([i \in Images |->
                IF class_detected[i][r]
                THEN Cardinality(detections[i][r] \cup image_targets[i][r]) ELSE 0])
        Detected(r) ==
            TorchSum([i \in Images |-> IF class_detected[i][r] THEN 1 ELSE 0])
    IN [sum_intersection_area_per_region |->
            [r \in Regions |->
                obj_detector_scores.sum_intersection_area_per_region[r] + Intersection(r)],
        sum_union_area_per_region |->
            [r \in Regions |->
                obj_detector_scores.sum_union_area_per_region[r] + Union(r)],
        sum_region_detected |->
            [r \in Regions |-> obj_detector_scores.sum_region_detected[r] + Detected(r)]]

\* update_region_selection_metrics: selected_regions against region_has_sentence,
\* over all regions, over the normal ones and over the abnormal ones
update_region_selection_metrics(region_selection_scores, selected_regions, region_has_sentence, region_is_abnormal) ==
    LET Gate(subset) ==
            IF subset = "all" THEN AllTrue(Len(selected_regions))
            ELSE IF subset = "normal" THEN Not(region_is_abnormal)
            ELSE region_is_abnormal
    IN [subset \in Subsets |-> [metric \in MetricNames |->
            AddCounts(region_selection_scores[subset][metric],
                      ConfusionCounts(selected_regions, region_has_sentence, Gate(subset)))]]

\* update_region_abnormal_metrics: predicted_abnormal_regions against
\* region_is_abnormal, over the detected regions
update_region_abnormal_metrics(region_abnormal_scores, predicted_abnormal_regions, region_is_abnormal, class_detected) ==
    [metric \in MetricNames |->
        AddCounts(region_abnormal_scores[metric],
                  ConfusionCounts(predicted_abnormal_regions, region_is_abnormal,
                                  class_detected))]

\* x / k for a float x and a natural k > 0
DivideBy(x, k) == IF x.kind = "number" THEN Number(x.num, x.den * k) ELSE x

\* sum_intersection / sum_union, region by region
avg_iou_per_region(sum_intersection, sum_union) ==
    [r \in Regions |-> TrueDivide(sum_intersection[r], sum_union[r])]

MeanOfRegionIoUs(sum_intersection, sum_union) ==
    DivideBy(TorchSumFloats(avg_iou_per_region(sum_intersection, sum_union)), NumRegions)

\* torch.sum(sum_intersection) / torch.sum(sum_union)
avg_iou(sum_intersection, sum_union) ==
    TrueDivide(TorchSum(sum_intersection), TorchSum(sum_union))

\* sum_region_detected / num_images, region by region
avg_detections_per_region(sum_region_detected, n) ==
    [r \in Regions |-> TrueDivide(sum_region_detected[r], n)]

\* torch.sum(sum_region_detected / num_images)
avg_num_detected_regions_per_image(sum_region_detected, n) ==
    TorchSumFloats(avg_detections_per_region(sum_region_detected, n))

\* the counts of a class as torchmetrics sees them: those of class 1 are the
\* counts held, for class 0 positive and negative change places
ClassCounts(c, class) ==
    IF class = 1 THEN c ELSE [tp |-> c.tn, fp |-> c.fn, fn |-> c.fp, tn |-> c.tp]

\* torchmetrics, average=None: a class no sample belongs to or is predicted as
\* scores nan, a zero denominator scores 0
StatScore(numerator, denominator, c) ==
    IF c.tp + c.fp + c.fn = 0 THEN NaN
    ELSE IF denominator = 0 THEN Number(0, 1)
    ELSE Number(numerator, denominator)

ScoreOfClass(metric, c) ==
    IF metric = "precision" THEN StatScore(c.tp, c.tp + c.fp, c)
    ELSE IF metric = "recall" THEN StatScore(c.tp, c.tp + c.fn, c)
    ELSE StatScore(2 * c.tp, 2 * c.tp + c.fp + c.fn, c)

\* score.compute(): one score per class, class 0 first
Compute(metric, c) ==
    <<ScoreOfClass(metric, ClassCounts(c, 0)), ScoreOfClass(metric, ClassCounts(c, 1))>>

NegativeClass(score_per_class) == score_per_class[1]

\* score.compute()[1]: only the positive class is reported
PositiveClass(score_per_class) == score_per_class[2]

\* the scores get_metric_scores computes after the loop and returns
FinalScores(s, n) ==
    [computed |-> TRUE,
     obj_detector_scores |->
         [avg_iou |->
              avg_iou(s.obj_detector_scores.sum_intersection_area_per_region,
                      s.obj_detector_scores.sum_union_area_per_region),
          avg_iou_per_region |->
              avg_iou_per_region(s.obj_detector_scores.sum_intersection_area_per_region,
                                 s.obj_detector_scores.sum_union_area_per_region),
          avg_num_detected_regions_per_image |->
              avg_num_detected_regions_per_image(
                  s.obj_detector_scores.sum_region_detected, n),
          avg_detections_per_region |->
              avg_detections_per_region(s.obj_detector_scores.sum_region_detected, n)],
     region_selection_scores |->
         [subset \in Subsets |-> [metric \in MetricNames |->
             PositiveClass(Compute(metric, s.region_selection_scores[subset][metric]))]],
     region_abnormal_scores |->
         [metric \in MetricNames |->
             PositiveClass(Compute(metric, s.region_abnormal_scores[metric]))]]

(***************************************************************************)
(* Each specification runs one part of the program; the variables of the   *)
(* other parts keep these values.                                          *)
(***************************************************************************)
NoBatch ==
    [index |-> 0, batch_size |-> 0, class_detected |-> <<>>, prediction |-> <<>>,
     region_has_sentence |-> <<>>]

\* the accumulators right after their construction: nothing added yet
EmptyScores ==
    [obj_detector_scores |-> <<>>,
     region_selection_scores |-> <<>>,
     region_abnormal_scores |-> <<>>]

ForwardIdle ==
    /\ call = <<>>
    /\ fpc = "idle"
    /\ ret = Unbound
    /\ lm_calls = <<>>

MaskIdle ==
    /\ dense = <<>>
    /\ mask = <<>>
    /\ flat = <<>>
    /\ flat_rows = <<>>
    /\ restored = <<>>
    /\ mpc = "idle"

LoopIdle ==
    /\ pc = "idle"
    /\ batches_read = 0
    /\ batch = NoBatch
    /\ num_images = 0
    /\ oom = FALSE
    /\ e = "none"
    /\ output = Unbound
    /\ output_of = 0
    /\ exc = "none"
    /\ scores = EmptyScores
    /\ before = [num_images |-> 0, scores |-> EmptyScores]
    /\ sums = ZeroSums
    /\ metrics = NotComputed

GenLoopIdle ==
    /\ gpc = "idle"
    /\ g_batches_read = 0
    /\ g_batch = NoBatch
    /\ g_output = Unbound
    /\ g_exc = "none"
    /\ generated_sentences = <<>>
    /\ generated_reports = <<>>
    /\ removed_similar_generated_sentences = <<>>

OrderIdle ==
    /\ opc = "idle"
    /\ loader = <<>>
    /\ forth = <<>>
    /\ back = <<>>

DedupIdle ==
    /\ dpc = "idle"
    /\ report_sentences = <<>>
    /\ deduplicated = <<>>
    /\ similarity = <<>>

(***************************************************************************)
(* SpecForward: one pipeline call on one batch.                            *)
(***************************************************************************)
\* ground-truth masks handed to a call whose code only passes them on
MaskSamples(n, M) == {AllFalse(n), AllTrue(n), M, Not(M)}

\* raw predictions of the region-selection classifier in a call whose code
\* reads only its loss
PredictionSamples(n) == {AllFalse(n), AllTrue(n)}

Call(entry, training, pretrain, n, d, p, h) ==
    [entry |-> entry, training |-> training, pretrain_without_lm_model |-> pretrain,
     n |-> n, class_detected |-> d, prediction |-> p, region_has_sentence |-> h]

\* the calls of the training loop: every detected and ground-truth mask
TrainingCall(c) ==
    \E n \in BatchSizes : \E d \in Mask(n), h \in Mask(n), p \in PredictionSamples(n) :
        c = Call("forward", TRUE, FALSE, n, d, p, h)

\* the calls of an evaluation loop: every detected and predicted mask
EvaluationCall(c) ==
    \E n \in BatchSizes : \E d \in Mask(n), p \in Mask(n) : \E h \in MaskSamples(n, p) :
        c = Call("forward", FALSE, FALSE, n, d, p, h)

\* the calls of a model built with pretrain_without_lm_model
PretrainCall(c) ==
    \E n \in BatchSizes : \E t \in BOOLEAN, d \in Mask(n),
                             p \in PredictionSamples(n), h \in PredictionSamples(n) :
        c = Call("forward", t, TRUE, n, d, p, h)

\* the calls of generate: every detected and predicted mask, no ground truth
GenerateCall(c) ==
    \E n \in BatchSizes : \E d \in Mask(n), p \in Mask(n) :
        c = Call("generate", FALSE, FALSE, n, d, p, AllFalse(n))

InitForward ==
    /\ OrderIdle
    /\ DedupIdle
    /\ MaskIdle
    /\ LoopIdle
    /\ GenLoopIdle
    /\ \/ TrainingCall(call)
       \/ EvaluationCall(call)
       \/ PretrainCall(call)
       \/ GenerateCall(call)
    /\ fpc = "start"
    /\ ret = Unbound
    /\ lm_calls = <<>>

Return(result) ==
    /\ fpc' = "done"
    /\ ret' = result.ret
    /\ lm_calls' = result.lm_calls
    /\ UNCHANGED <<call, mvars, lvars, gvars, ovars, dvars>>

\* model.train(); model(images, image_targets, input_ids, ...)
TrainingForward ==
    /\ fpc = "start"
    /\ call.entry = "forward"
    /\ call.training
    /\ Return(forward(TRUE, call.pretrain_without_lm_model, call.n,
                      call.class_detected, call.prediction, call.region_has_sentence))

\* model.eval(); model(images, image_targets, input_ids, ...)
EvaluationForward ==
    /\ fpc = "start"
    /\ call.entry = "forward"
    /\ ~call.training
    /\ Return(forward(FALSE, call.pretrain_without_lm_model, call.n,
                      call.class_detected, call.prediction, call.region_has_sentence))

\* model.generate(images, ...)
Generate ==
    /\ fpc = "start"
    /\ call.entry = "generate"
    /\ Return(generate(call.n, call.class_detected, call.prediction))

NextForward == TrainingForward \/ EvaluationForward \/ Generate

SpecForward == InitForward /\ [][NextForward]_vars

(***************************************************************************)
(* Properties of one pipeline call (SpecForward).                          *)
(***************************************************************************)
\* the row of the named tensor that belongs to slot s
RowOf(tensor, s) == [tensor |-> tensor, image |-> s[1], region |-> s[2]]

\* the rows rows[1..] of the named tensor are those of the slots V, row-major
ListsSlots(rows, tensor, V) ==
    /\ Len(rows) = Cardinality(V)
    /\ \A s \in V : rows[Rank(s, V)] = RowOf(tensor, s)

TrainingDone ==
    /\ fpc = "done"
    /\ call.entry = "forward"
    /\ call.training
    /\ ~call.pretrain_without_lm_model

EvaluationDone ==
    /\ fpc = "done"
    /\ call.entry = "forward"
    /\ ~call.training
    /\ ~call.pretrain_without_lm_model

GenerateDone == fpc = "done" /\ call.entry = "generate"

\* the slots that are detected and have a ground-truth sentence
DetectedWithSentence ==
    {s \in Slots(call.n) :
        call.class_detected[s[1]][s[2]] /\ call.region_has_sentence[s[1]][s[2]]}

\* the slots that the classifier predicts and the detector detected
DetectedAndPredicted ==
    {s \in Slots(call.n) :
        call.class_detected[s[1]][s[2]] /\ call.prediction[s[1]][s[2]]}

\* C1: a training-mode forward (pretrain_without_lm_model off) returns the
\* sentinel -1 without invoking the language model exactly when no slot is
\* both detected and has a ground-truth sentence; otherwise it invokes the
\* language model once and returns the triple of losses.
C1_TrainingSentinelIffNoValidSlot ==
    TrainingDone =>
        IF DetectedWithSentence = {}
        THEN IsSentinel(ret) /\ lm_calls = <<>>
        ELSE /\ ret = TupleValue(TrainingItems, <<>>, <<>>)
             /\ Len(lm_calls) = 1
             /\ lm_calls[1].fn = "forward"

\* a training batch with detected regions and with ground-truth sentences, but
\* never both on one slot: the call returned the sentinel
C1_Witness ==
    /\ TrainingDone
    /\ DetectedWithSentence = {}
    /\ TrueSlots(call.class_detected) # {}
    /\ TrueSlots(call.region_has_sentence) # {}
    /\ IsSentinel(ret)

\* C2: on every entry path the language model is invoked only with at least
\* one feature row, and an evaluation forward or a generate in which no region
\* is selected returns -1 without invoking it.
C2_GeneratorNeverOnEmptySet ==
    fpc = "done" =>
        /\ ret.kind # "raise"
        /\ \A k \in DOMAIN lm_calls : Len(lm_calls[k].region_features) >= 1
        /\ ((EvaluationDone \/ GenerateDone) /\ DetectedAndPredicted = {})
               => (IsSentinel(ret) /\ lm_calls = <<>>)

\* a generate call in which the classifier predicts regions, none of them
\* detected: nothing is selected and the call returned the sentinel
C2_Witness ==
    /\ GenerateDone
    /\ TrueSlots(call.prediction) # {}
    /\ DetectedAndPredicted = {}
    /\ IsSentinel(ret)
    /\ lm_calls = <<>>

\* C4: in training mode the language model receives exactly the slots that are
\* detected and have a ground-truth sentence, whatever the classifier predicts:
\* input_ids, attention_mask and region features have one row per such slot,
\* in row-major order of the slots, so that row k of each belongs to the same
\* slot.
C4_TrainingRowsAligned ==
    (TrainingDone /\ lm_calls # <<>>) =>
        /\ ListsSlots(lm_calls[1].input_ids, "input_ids", DetectedWithSentence)
        /\ ListsSlots(lm_calls[1].attention_mask, "attention_mask", DetectedWithSentence)
        /\ ListsSlots(lm_calls[1].region_features, "region_features", DetectedWithSentence)

\* a training batch of two images with a valid slot in each and an invalid
\* slot in between, where the classifier predicted nothing
C4_Witness ==
    /\ TrainingDone
    /\ call.n >= 2
    /\ call.prediction = AllFalse(call.n)
    /\ <<1, 1>> \in DetectedWithSentence
    /\ <<1, NumRegions>> \notin DetectedWithSentence
    /\ <<2, NumRegions>> \in DetectedWithSentence
    /\ Len(lm_calls) = 1
    /\ Len(lm_calls[1].region_features) >= 2

\* C6: in evaluation mode the language model receives the input_ids,
\* attention_mask and feature rows of exactly the selected slots, in row-major
\* order, for every ground-truth mask region_has_sentence: the rows are a
\* function of the selected mask alone.
C6_EvaluationRowsFromSelection ==
    EvaluationDone =>
        IF DetectedAndPredicted = {}
        THEN lm_calls = <<>>
        ELSE /\ Len(lm_calls) = 1
             /\ ret.selected_regions \in Mask(call.n)
             /\ TrueSlots(ret.selected_regions) = DetectedAndPredicted
             /\ ListsSlots(lm_calls[1].input_ids, "input_ids", DetectedAndPredicted)
             /\ ListsSlots(lm_calls[1].attention_mask, "attention_mask", DetectedAndPredicted)
             /\ ListsSlots(lm_calls[1].region_features, "region_features", DetectedAndPredicted)

\* an evaluation batch whose ground truth marks exactly the slots the
\* classifier did not predict, and in which regions were selected
C6_Witness ==
    /\ EvaluationDone
    /\ call.region_has_sentence = Not(call.prediction)
    /\ DetectedWithSentence # {}
    /\ DetectedAndPredicted # {}
    /\ Len(lm_calls) = 1

(***************************************************************************)
(* SpecMask: a dense tensor is compacted by a mask, as the pipeline does   *)
(* with tensor[mask], and scattered back to the grid.                      *)
(***************************************************************************)
\* the values of a dense tensor, and the default of a slot that holds none
Values == {"a", "b"}

Empty == "empty"

\* scatter(flatTensor, M): the k-th row goes to the k-th true position of M in
\* row-major order, every other position holds the default
Scatter(flatTensor, M) ==
    [i \in DOMAIN M |-> [r \in Regions |->
        IF M[i][r] THEN flatTensor[Rank(<<i, r>>, TrueSlots(M))] ELSE Empty]]

InitMask ==
    /\ OrderIdle
    /\ DedupIdle
    /\ ForwardIdle
    /\ LoopIdle
    /\ GenLoopIdle
    /\ \E n \in BatchSizes :
          /\ dense \in [1..n -> [Regions -> Values]]
          /\ mask \in Mask(n)
    /\ flat = <<>>
    /\ flat_rows = <<>>
    /\ restored = <<>>
    /\ mpc = "start"

\* region_features[valid] and input_ids[valid_reshaped]
Compact ==
    /\ mpc = "start"
    /\ flat' = IndexGrid(dense, mask)
    /\ flat_rows' = IndexRows(Reshape(dense), Reshape(mask))
    /\ mpc' = "compacted"
    /\ UNCHANGED <<dense, mask, restored, fvars, lvars, gvars, ovars, dvars>>

ScatterBack ==
    /\ mpc = "compacted"
    /\ restored' = Scatter(flat, mask)
    /\ mpc' = "scattered"
    /\ UNCHANGED <<dense, mask, flat, flat_rows, fvars, lvars, gvars, ovars, dvars>>

NextMask == Compact \/ ScatterBack

SpecMask == InitMask /\ [][NextMask]_vars

\* C5: for every dense tensor X and every mask M (all-false and all-true
\* included), compacting X by M lists the M-true entries of X in row-major
\* order, and scattering the result back by M gives X at the true positions of
\* M and the default value at the false ones.
C5_MaskRoundTrip ==
    /\ mpc \in {"compacted", "scattered"} =>
          /\ Len(flat) = Cardinality(TrueSlots(mask))
          /\ \A s \in TrueSlots(mask) :
                flat[Rank(s, TrueSlots(mask))] = dense[s[1]][s[2]]
          /\ flat_rows = flat
    /\ mpc = "scattered" =>
          \A s \in Slots(Len(mask)) :
              restored[s[1]][s[2]] =
                  IF mask[s[1]][s[2]] THEN dense[s[1]][s[2]] ELSE Empty

\* a round trip through a mask that keeps two different values of one image
\* and drops a slot of another image
C5_Witness ==
    /\ mpc = "scattered"
    /\ Len(mask) >= 2
    /\ mask[1][1] /\ mask[1][NumRegions] /\ ~mask[2][1]
    /\ dense[1][1] # dense[1][NumRegions]
    /\ restored[1][1] = dense[1][1]
    /\ restored[1][NumRegions] = dense[1][NumRegions]
    /\ restored[2][1] = Empty

(***************************************************************************)
(* Spec: get_metric_scores(model, test_loader), with model in evaluation   *)
(* mode (main: ReportGenerationModel(), model.eval()).                     *)
(***************************************************************************)
\* the names the loop unpacks `output` into, in order
UnpackTargets ==
    <<"_", "_", "_", "_",
      "detections", "class_detected", "selected_regions", "predicted_abnormal_regions">>

\* what the detector and the classifier make of the images of a test batch,
\* and the batch's ground truth
TestBatch(k, n, d, p, h) ==
    [index |-> k, batch_size |-> n, class_detected |-> d, prediction |-> p,
     region_has_sentence |-> h]

\* one call of an update_* function: the batch whose model output it was given
\* and the batch whose ground truth it was given
Update(of_output, of_ground_truth) ==
    [output_of |-> of_output, ground_truth_of |-> of_ground_truth]

Init ==
    /\ OrderIdle
    /\ DedupIdle
    /\ ForwardIdle
    /\ MaskIdle
    /\ GenLoopIdle
    /\ pc = "loop"
    /\ batches_read = 0
    /\ batch = NoBatch
    /\ num_images = 0
    /\ oom = FALSE
    /\ e = "none"
    /\ output = Unbound
    /\ output_of = 0
    /\ exc = "none"
    /\ scores = EmptyScores
    /\ before = [num_images |-> 0, scores |-> EmptyScores]
    /\ sums = ZeroSums
    /\ metrics = NotComputed

\* for num_batch, batch in enumerate(test_loader): read the batch, count its
\* images, move it to the device
ReadBatch ==
    /\ pc = "loop"
    /\ batches_read < MaxBatches
    /\ \E n \in BatchSizes :
       \E d \in PredictionSamples(n), p \in PredictionSamples(n),
          h \in PredictionSamples(n) :
          /\ batch' = TestBatch(batches_read + 1, n, d, p, h)
          /\ num_images' = num_images + n
    /\ batches_read' = batches_read + 1
    /\ before' = [num_images |-> num_images, scores |-> scores]
    /\ e' = "none"
    /\ pc' = "try"
    /\ UNCHANGED <<oom, output, output_of, exc, scores, sums, metrics,
                   fvars, mvars, gvars, ovars, dvars>>

\* output = model(images, image_targets, input_ids, ...) returns
ModelReturns ==
    /\ pc = "try"
    /\ output' = forward(FALSE, FALSE, batch.batch_size, batch.class_detected,
                         batch.prediction, batch.region_has_sentence).ret
    /\ output_of' = batch.index
    /\ pc' = "after_try"
    /\ UNCHANGED <<batches_read, batch, num_images, oom, e, exc, scores, before,
                   sums, metrics,
                   fvars, mvars, gvars, ovars, dvars>>

\* the model call raises RuntimeError("... out of memory ..."): the except
\* clause sets oom, prints and raises e again
ModelRaisesOutOfMemory ==
    /\ pc = "try"
    /\ e' = "RuntimeError: out of memory"
    /\ oom' = TRUE
    /\ exc' = "RuntimeError: out of memory"
    /\ pc' = "raised"
    /\ UNCHANGED <<batches_read, batch, num_images, output, output_of, scores,
                   before, sums, metrics,
                   fvars, mvars, gvars, ovars, dvars>>

\* the model call raises a RuntimeError with another message: the except
\* clause catches it and does nothing
ModelRaisesRuntimeError ==
    /\ pc = "try"
    /\ e' = "RuntimeError"
    /\ pc' = "after_try"
    /\ UNCHANGED <<batches_read, batch, num_images, oom, output, output_of, exc,
                   scores, before, sums, metrics,
                   fvars, mvars, gvars, ovars, dvars>>

\* the model call raises an exception that is no RuntimeError: no clause
\* catches it
ModelRaisesOtherException ==
    /\ pc = "try"
    /\ exc' = "Exception"
    /\ pc' = "raised"
    /\ UNCHANGED <<batches_read, batch, num_images, oom, e, output, output_of,
                   scores, before, sums, metrics,
                   fvars, mvars, gvars, ovars, dvars>>

AfterTryKeepsCount ==
    /\ pc = "after_try"
    /\ IF oom
       THEN /\ oom' = FALSE
            /\ num_images' = num_images - batch.batch_size
            /\ pc' = "loop"
            /\ exc' = exc
       ELSE IF output.kind = "unbound"
       THEN /\ exc' = "UnboundLocalError"
            /\ pc' = "raised"
            /\ UNCHANGED <<oom, num_images>>
       ELSE IF IsSentinel(output)
       THEN /\ pc' = "loop"
            /\ UNCHANGED <<oom, num_images, exc>>
       ELSE /\ pc' = "unpack"
            /\ UNCHANGED <<oom, num_images, exc>>
    /\ UNCHANGED <<batches_read, batch, e, output, output_of, scores, before,
                   sums, metrics,
                   fvars, mvars, gvars, ovars, dvars>>

\* if oom: ... continue;  if output == -1: ... continue
AfterTry ==
    /\ pc = "after_try"
    /\ IF oom
       THEN /\ oom' = FALSE
            /\ num_images' = num_images - batch.batch_size
            /\ pc' = "loop"
            /\ exc' = exc
       ELSE IF output.kind = "unbound"
       THEN /\ exc' = "UnboundLocalError"
            /\ pc' = "raised"
            /\ UNCHANGED <<oom, num_images>>
       ELSE IF IsSentinel(output)
       THEN /\ num_images' = num_images - batch.batch_size
            /\ pc' = "loop"
            /\ UNCHANGED <<oom, exc>>
       ELSE /\ pc' = "unpack"
            /\ UNCHANGED <<oom, num_images, exc>>
    /\ UNCHANGED <<batches_read, batch, e, output, output_of, scores, before,
                   sums, metrics,
                   fvars, mvars, gvars, ovars, dvars>>

\* (_, _, _, _, detections, ..., predicted_abnormal_regions) = output, then the
\* three update_* calls
UnpackAndUpdate ==
    /\ pc = "unpack"
    /\ IF Len(output.items) # Len(UnpackTargets)
       THEN /\ exc' = "ValueError"
            /\ pc' = "raised"
            /\ scores' = scores
            /\ sums' = sums
       ELSE /\ scores' =
                [obj_detector_scores |->
                     Append(scores.obj_detector_scores, Update(output_of, batch.index)),
                 region_selection_scores |->
                     Append(scores.region_selection_scores, Update(output_of, batch.index)),
                 region_abnormal_scores |->
                     Append(scores.region_abnormal_scores, Update(output_of, batch.index))]
            /\ sums' =
                [obj_detector_scores |->
                     update_object_detector_metrics(
                         sums.obj_detector_scores, output.detections,
                         batch.image_targets, output.class_detected),
                 region_selection_scores |->
                     update_region_selection_metrics(
                         sums.region_selection_scores, output.selected_regions,
                         batch.region_has_sentence, batch.region_is_abnormal),
                 region_abnormal_scores |->
                     update_region_abnormal_metrics(
                         sums.region_abnormal_scores, output.predicted_abnormal_regions,
                         batch.region_is_abnormal, output.class_detected)]
            /\ pc' = "loop"
            /\ exc' = exc
    /\ UNCHANGED <<batches_read, batch, num_images, oom, e, output, output_of,
                   before, metrics,
                   fvars, mvars, gvars, ovars, dvars>>

FinalizeInsideLoop ==
    /\ pc = "loop"
    /\ metrics' = FinalScores(sums, num_images)
    /\ UNCHANGED <<pc, batches_read, batch, num_images, oom, e, output, output_of, exc,
                   scores, before, sums,
                   fvars, mvars, gvars, ovars, dvars>>

\* test_loader is exhausted: compute the scores and return them
Finalize ==
    /\ pc = "loop"
    /\ metrics' = FinalScores(sums, num_images)
    /\ pc' = "returned"
    /\ UNCHANGED <<batches_read, batch, num_images, oom, e, output, output_of, exc,
                   scores, before, sums,
                   fvars, mvars, gvars, ovars, dvars>>

Next ==
    \/ ReadBatch
    \/ ModelReturns
    \/ ModelRaisesOutOfMemory
    \/ ModelRaisesRuntimeError
    \/ ModelRaisesOtherException
    \/ AfterTry
    \/ UnpackAndUpdate
    \/ Finalize

Spec == Init /\ [][Next]_vars

(***************************************************************************)
(* SpecFinalize: the finalization of get_metric_scores, applied to         *)
(* accumulators that hold what one batch added to them.                    *)
(***************************************************************************)
\* the sums of intersection and union area of one region: an intersection
\* is never larger than the union
AreaSums == {a \in (0..MaxArea) \X (0..MaxArea) : a[1] <= a[2]}

\* one image whose regions' predicted and ground-truth boxes have the areas a
DetectionSums(a) ==
    [sum_intersection_area_per_region |-> [r \in Regions |-> a[r][1]],
     sum_union_area_per_region |-> [r \in Regions |-> a[r][2]],
     sum_region_detected |-> [r \in Regions |-> IF a[r][2] > 0 THEN 1 ELSE 0]]

\* n images with boxes of one pixel that match; region r detected in d[r] images
DetectedSums(d) ==
    [sum_intersection_area_per_region |-> d,
     sum_union_area_per_region |-> d,
     sum_region_detected |-> d]

\* the log of k batches, each added with its own output and ground truth
Logged(k) ==
    [obj_detector_scores |-> [b \in 1..k |-> Update(b, b)],
     region_selection_scores |-> [b \in 1..k |-> Update(b, b)],
     region_abnormal_scores |-> [b \in 1..k |-> Update(b, b)]]

\* the accumulators after one batch
InitOneBatch ==
    \/ \E a \in [Regions -> AreaSums] :
          /\ num_images = 1
          /\ sums = [ZeroSums EXCEPT !.obj_detector_scores = DetectionSums(a)]
    \/ \E n \in BatchSizes : \E d \in [Regions -> 0..n] :
          /\ num_images = n
          /\ sums = [ZeroSums EXCEPT !.obj_detector_scores = DetectedSums(d)]
    \/ \E selected_regions \in Mask(1), region_has_sentence \in Mask(1),
          region_is_abnormal \in Mask(1) :
          /\ num_images = 1
          /\ sums = [ZeroSums EXCEPT !.region_selection_scores =
                        update_region_selection_metrics(
                            ZeroSums.region_selection_scores, selected_regions,
                            region_has_sentence, region_is_abnormal)]
    \/ \E predicted_abnormal_regions \in Mask(1), region_is_abnormal \in Mask(1),
          class_detected \in Mask(1) :
          /\ num_images = 1
          /\ sums = [ZeroSums EXCEPT
                        !.obj_detector_scores =
                            DetectedSums([r \in Regions |->
                                IF class_detected[1][r] THEN 1 ELSE 0]),
                        !.region_abnormal_scores =
                            update_region_abnormal_metrics(
                                ZeroSums.region_abnormal_scores,
                                predicted_abnormal_regions, region_is_abnormal,
                                class_detected)]

InitFinalize ==
    /\ ForwardIdle
    /\ MaskIdle
    /\ GenLoopIdle
    /\ OrderIdle
    /\ DedupIdle
    /\ pc = "loop"
    /\ batch = NoBatch
    /\ oom = FALSE
    /\ e = "none"
    /\ output = Unbound
    /\ exc = "none"
    /\ before = [num_images |-> 0, scores |-> EmptyScores]
    /\ metrics = NotComputed
    /\ batches_read \in 1..2
    /\ output_of = batches_read
    /\ scores = Logged(batches_read)
    /\ \/ \E selected_regions \in [1..2 -> Mask(1)],
             region_has_sentence \in [1..2 -> Mask(1)],
             region_is_abnormal \in Mask(1) :
             /\ batches_read = 2
             /\ num_images = 2
             /\ sums = [ZeroSums EXCEPT !.region_selection_scores =
                           update_region_selection_metrics(
                               update_region_selection_metrics(
                                   ZeroSums.region_selection_scores,
                                   selected_regions[1], region_has_sentence[1],
                                   region_is_abnormal),
                               selected_regions[2], region_has_sentence[2],
                               region_is_abnormal)]
       \/ /\ batches_read = 1
          /\ InitOneBatch

NextFinalize == Finalize

SpecFinalize == InitFinalize /\ [][NextFinalize]_vars

(***************************************************************************)
(* SpecOrder: get_metric_scores run twice on the same two test batches,    *)
(* once over the loader and once over the loader reversed.  A run is a     *)
(* record of the function's locals; what the model call does on a batch    *)
(* (return, or raise) belongs to the batch.                                *)
(***************************************************************************)
Faults == {"none", "RuntimeError: out of memory", "RuntimeError", "Exception"}

\* the locals of get_metric_scores when the loop is entered
LoopStart ==
    [pc |-> "loop", num_images |-> 0, oom |-> FALSE, output |-> Unbound,
     output_of |-> 0, exc |-> "none", scores |-> EmptyScores, sums |-> ZeroSums,
     metrics |-> NotComputed]

\* one iteration of the loop on batch b, whose model call ends as `fault` says
Iteration(s, b, fault) ==
    LET counted == [s EXCEPT !.num_images = s.num_images + b.batch_size]
        returned == forward(FALSE, FALSE, b.batch_size, b.class_detected,
                            b.prediction, b.region_has_sentence).ret
        tried == IF fault = "none"
                 THEN [counted EXCEPT !.output = returned, !.output_of = b.index]
                 ELSE IF fault = "RuntimeError: out of memory"
                 THEN [counted EXCEPT !.oom = TRUE, !.exc = fault, !.pc = "raised"]
                 ELSE IF fault = "RuntimeError"
                 THEN counted
                 ELSE [counted EXCEPT !.exc = fault, !.pc = "raised"]
        added ==
            [obj_detector_scores |->
                 Append(tried.scores.obj_detector_scores, Update(tried.output_of, b.index)),
             region_selection_scores |->
                 Append(tried.scores.region_selection_scores,
                        Update(tried.output_of, b.index)),
             region_abnormal_scores |->
                 Append(tried.scores.region_abnormal_scores,
                        Update(tried.output_of, b.index))]
        updated ==
            [obj_detector_scores |->
                 update_object_detector_metrics(
                     tried.sums.obj_detector_scores, tried.output.detections,
                     b.image_targets, tried.output.class_detected),
             region_selection_scores |->
                 update_region_selection_metrics(
                     tried.sums.region_selection_scores, tried.output.selected_regions,
                     b.region_has_sentence, b.region_is_abnormal),
             region_abnormal_scores |->
                 update_region_abnormal_metrics(
                     tried.sums.region_abnormal_scores,
                     tried.output.predicted_abnormal_regions,
                     b.region_is_abnormal, tried.output.class_detected)]
    IN IF s.pc # "loop" THEN s
       ELSE IF tried.pc = "raised" THEN tried
       ELSE IF tried.oom
       THEN [tried EXCEPT !.oom = FALSE, !.num_images = tried.num_images - b.batch_size]
       ELSE IF tried.output.kind = "unbound"
       THEN [tried EXCEPT !.exc = "UnboundLocalError", !.pc = "raised"]
       ELSE IF IsSentinel(tried.output)
       THEN [tried EXCEPT !.num_images = tried.num_images - b.batch_size]
       ELSE IF Len(tried.output.items) # Len(UnpackTargets)
       THEN [tried EXCEPT !.exc = "ValueError", !.pc = "raised"]
       ELSE [tried EXCEPT !.scores = added, !.sums = updated]

\* the code after the loop
Finalization(s) ==
    IF s.pc # "loop" THEN s
    ELSE [s EXCEPT !.metrics = FinalScores(s.sums, s.num_images), !.pc = "returned"]

\* a test loader of two batches: the batches and what the model call does on
\* each of them
TwoBatches(l) ==
    \E n1 \in BatchSizes, n2 \in BatchSizes :
    \E d1 \in PredictionSamples(n1), p1 \in PredictionSamples(n1),
       h1 \in PredictionSamples(n1), fault1 \in Faults :
    \E d2 \in PredictionSamples(n2), p2 \in PredictionSamples(n2),
       h2 \in PredictionSamples(n2), fault2 \in Faults :
        l = <<[batch |-> TestBatch(1, n1, d1, p1, h1), fault |-> fault1],
              [batch |-> TestBatch(2, n2, d2, p2, h2), fault |-> fault2]>>

Reversed(l) == [k \in 1..Len(l) |-> l[Len(l) + 1 - k]]

InitOrder ==
    /\ ForwardIdle
    /\ MaskIdle
    /\ LoopIdle
    /\ GenLoopIdle
    /\ DedupIdle
    /\ opc = "looping"
    /\ TwoBatches(loader)
    /\ forth = [run |-> LoopStart, read |-> 0]
    /\ back = [run |-> LoopStart, read |-> 0]

\* both runs take their next batch through one iteration of the loop
OrderIteration ==
    /\ opc = "looping"
    /\ forth.read < Len(loader)
    /\ forth' = [run |-> Iteration(forth.run, loader[forth.read + 1].batch,
                                   loader[forth.read + 1].fault),
                 read |-> forth.read + 1]
    /\ back' = [run |-> Iteration(back.run, Reversed(loader)[back.read + 1].batch,
                                  Reversed(loader)[back.read + 1].fault),
                read |-> back.read + 1]
    /\ UNCHANGED <<opc, loader, fvars, mvars, lvars, gvars, dvars>>

\* both loaders are exhausted: the runs that are still in the loop finalize
OrderFinalize ==
    /\ opc = "looping"
    /\ forth.read = Len(loader)
    /\ forth' = [forth EXCEPT !.run = Finalization(forth.run)]
    /\ back' = [back EXCEPT !.run = Finalization(back.run)]
    /\ opc' = "done"
    /\ UNCHANGED <<loader, fvars, mvars, lvars, gvars, dvars>>

NextOrder == OrderIteration \/ OrderFinalize

SpecOrder == InitOrder /\ [][NextOrder]_vars

\* C11: the finalized metrics of a run over [B1, B2] are those of the run over
\* [B2, B1], also when a batch is skipped: either both runs return, with the
\* same metrics, or neither does.
C11_OrderDoesNotChangeMetrics ==
    opc = "done" => forth.run.metrics = back.run.metrics

(***************************************************************************)
(* SpecGenLoop: evaluate_language_model(model, test_loader, tokenizer).    *)
(***************************************************************************)
InitGenLoop ==
    /\ OrderIdle
    /\ dpc = "idle"
    /\ report_sentences = <<>>
    /\ deduplicated = <<>>
    /\ similarity \in SimilarityTables(Regions)
    /\ ForwardIdle
    /\ MaskIdle
    /\ LoopIdle
    /\ gpc = "loop"
    /\ g_batches_read = 0
    /\ g_batch = NoBatch
    /\ g_output = Unbound
    /\ g_exc = "none"
    /\ generated_sentences = <<>>
    /\ generated_reports = <<>>
    /\ removed_similar_generated_sentences = <<>>

BatchDecodeReversed(output_ids, k) ==
    [j \in DOMAIN output_ids |->
        [batch |-> k,
         image |-> output_ids[Len(output_ids) + 1 - j].image,
         region |-> output_ids[Len(output_ids) + 1 - j].region]]

\* tokenizer.batch_decode: one sentence per generated sequence, in order; a
\* sentence is identified by the batch and the slot it was generated for
BatchDecode(output_ids, k) ==
    [j \in DOMAIN output_ids |->
        [batch |-> k, image |-> output_ids[j].image, region |-> output_ids[j].region]]

\* for num_batch, batch in enumerate(test_loader): read the batch
GenReadBatch ==
    /\ gpc = "loop"
    /\ g_batches_read < MaxBatches
    /\ \E n \in BatchSizes :
       \E d \in PredictionSamples(n), p \in PredictionSamples(n) :
          g_batch' = TestBatch(g_batches_read + 1, n, d, p, AllFalse(n))
    /\ g_batches_read' = g_batches_read + 1
    /\ gpc' = "generate"
    /\ UNCHANGED <<g_output, g_exc, generated_sentences, generated_reports,
                   removed_similar_generated_sentences,
                   fvars, mvars, lvars, ovars, dvars>>

\* output = model.generate(images, ...) returns
GenerateReturns ==
    /\ gpc = "generate"
    /\ g_output' = generate(g_batch.batch_size, g_batch.class_detected,
                            g_batch.prediction).ret
    /\ gpc' = "assemble"
    /\ UNCHANGED <<g_batches_read, g_batch, g_exc, generated_sentences,
                   generated_reports, removed_similar_generated_sentences,
                   fvars, mvars, lvars, ovars, dvars>>

\* model.generate raises: nothing in evaluate_language_model catches it
GenerateRaises ==
    /\ gpc = "generate"
    /\ g_exc' = "Exception"
    /\ gpc' = "raised"
    /\ UNCHANGED <<g_batches_read, g_batch, g_output, generated_sentences,
                   generated_reports, removed_similar_generated_sentences,
                   fvars, mvars, lvars, ovars, dvars>>

\* beam_search_output, selected_regions, _, _ = output, then the sentences of
\* the batch are decoded, regrouped into one report per image and collected
AssembleBatch ==
    /\ gpc = "assemble"
    /\ IF g_output.kind # "tuple" \/ Len(g_output.items) # Len(GenerateItems)
       THEN /\ g_exc' = "TypeError"
            /\ gpc' = "raised"
            /\ UNCHANGED <<generated_sentences, generated_reports,
                           removed_similar_generated_sentences>>
       ELSE LET generated_sentences_for_selected_regions ==
                    BatchDecode(g_output.output_ids, g_batch.index)
                reports == get_generated_and_reference_reports(
                               generated_sentences_for_selected_regions,
                               g_output.selected_regions, similarity,
                               BERTSCORE_SIMILARITY_THRESHOLD)
            IN /\ generated_sentences' =
                      generated_sentences \o generated_sentences_for_selected_regions
               /\ generated_reports' = generated_reports \o reports.generated_reports
               /\ removed_similar_generated_sentences' =
                      removed_similar_generated_sentences
                          \o reports.removed_similar_generated_sentences
               /\ gpc' = "loop"
               /\ g_exc' = g_exc
    /\ UNCHANGED <<g_batches_read, g_batch, g_output,
                   fvars, mvars, lvars, ovars, dvars>>

\* the loop has ended: write the sentences, compute the language-model scores
GenFinish ==
    /\ gpc = "loop"
    /\ gpc' = "returned"
    /\ UNCHANGED <<g_batches_read, g_batch, g_output, g_exc, generated_sentences,
                   generated_reports, removed_similar_generated_sentences,
                   fvars, mvars, lvars, ovars, dvars>>

NextGenLoop ==
    \/ GenReadBatch
    \/ GenerateReturns
    \/ GenerateRaises
    \/ AssembleBatch
    \/ GenFinish

SpecGenLoop == InitGenLoop /\ [][NextGenLoop]_vars

(***************************************************************************)
(* Properties of the two evaluation loops.                                 *)
(***************************************************************************)
\* C3: every caller of the pipeline checks for the sentinel before it uses
\* the result as a tuple: a batch on which generate (or forward) returned -1
\* is never destructured, it counts as "no region qualified" and the loop
\* goes on.
C3_CallersCheckSentinel ==
    IsSentinel(g_output) => (gpc # "raised" /\ g_exc = "none")

\* C7: a normal result of the evaluation-mode forward has the shape that
\* get_metric_scores destructures (eight items, with detections, the detected
\* mask, the selected mask and the predicted-abnormal mask at the positions of
\* those names), so that the batch is added to the three accumulator groups
\* instead of ending the run.
C7_ResultHasShapeDestructured ==
    /\ output.kind = "tuple" =>
          /\ Len(output.items) = Len(UnpackTargets)
          /\ \A k \in DOMAIN UnpackTargets :
                UnpackTargets[k] # "_" => output.items[k] = UnpackTargets[k]
    /\ exc # "ValueError"

\* C8: an out-of-memory failure of the model call on one batch is turned into
\* a skip of that batch: it never leaves get_metric_scores, the batch's images
\* are taken out of num_images, no accumulator changes and the loop goes on.
C8_OutOfMemoryBatchIsSkipped ==
    e = "RuntimeError: out of memory" =>
        /\ pc \in {"after_try", "loop", "try", "returned"}
        /\ exc = "none"
        /\ scores = before.scores
        /\ pc # "after_try" => num_images = before.num_images

\* C9: a failure of the model call that is not resource exhaustion leaves
\* get_metric_scores uncaught: the loop does not go on after it and adds
\* nothing to an accumulator.
C9_OtherFailurePropagates ==
    e = "RuntimeError" => (pc = "raised" /\ exc = "RuntimeError")

\* the batch just read has been dealt with and its model call either returned
\* the sentinel or failed with out of memory
BatchWasSkipped ==
    /\ pc \in {"loop", "returned", "raised"}
    /\ batches_read > 0
    /\ \/ e = "RuntimeError: out of memory"
       \/ (e = "none" /\ exc = "none" /\ output_of = batch.index /\ IsSentinel(output))

\* C10: a skipped batch (sentinel, or out of memory) leaves every accumulator
\* group as it was and num_images at its value before the batch was read.
C10_SkippedBatchLeavesNoTrace ==
    BatchWasSkipped =>
        /\ scores = before.scores
        /\ num_images = before.num_images

(***************************************************************************)
(* Properties of the accumulators and of the finalization.                 *)
(***************************************************************************)
\* the accumulators hold sums and counts, no quotient
RawSums(s) ==
    /\ \A k \in {"sum_intersection_area_per_region", "sum_union_area_per_region",
                 "sum_region_detected"} :
          \A r \in Regions : s.obj_detector_scores[k][r] \in Nat
    /\ \A subset \in Subsets, metric \in MetricNames, k \in {"tp", "fp", "fn", "tn"} :
          s.region_selection_scores[subset][metric][k] \in Nat
    /\ \A metric \in MetricNames, k \in {"tp", "fp", "fn", "tn"} :
          s.region_abnormal_scores[metric][k] \in Nat

\* C12: while the loop runs the accumulators hold raw sums and counts and no
\* score has been computed; the scores are computed in one step, the one that
\* ends the loop and returns, and never again.
C12_FinalizeOnce ==
    /\ [](RawSums(sums) /\ (pc # "returned" => metrics = NotComputed))
    /\ [][metrics' # metrics =>
             /\ pc = "loop"
             /\ pc' = "returned"
             /\ metrics = NotComputed
             /\ metrics' = FinalScores(sums, num_images)]_vars

\* three batches were read and dealt with, then the scores were computed
C12_Witness ==
    /\ pc = "returned"
    /\ batches_read = MaxBatches
    /\ metrics.computed

\* the sum of f over the set S
RECURSIVE SumOf(_, _)
SumOf(f, S) ==
    IF S = {} THEN 0
    ELSE LET x == CHOOSE y \in S : TRUE IN f[x] + SumOf(f, S \ {x})

\* C13: the avg_iou reported is the sum of the intersection areas of all
\* regions over the sum of their union areas (the quotient q with
\* q * sum of unions = sum of intersections), not the mean of the regions'
\* ratios; with one region at (intersection 3, union 6) and the others at
\* (0, 0) it is 1/2.
C13_AvgIouIsAreaWeighted ==
    LET sum_intersection == sums.obj_detector_scores.sum_intersection_area_per_region
        sum_union == sums.obj_detector_scores.sum_union_area_per_region
        reported == metrics.obj_detector_scores.avg_iou
    IN (metrics.computed /\ SumOf(sum_union, Regions) > 0) =>
          /\ reported.kind = "number"
          /\ reported.num * SumOf(sum_union, Regions)
                 = reported.den * SumOf(sum_intersection, Regions)
          /\ (/\ sum_intersection[1] = 3
              /\ sum_union[1] = 6
              /\ \A r \in Regions \ {1} : sum_intersection[r] = 0 /\ sum_union[r] = 0)
                 => (reported.num = 1 /\ reported.den = 2)

\* the scores were computed from (3, 6) for one region and (0, 0) for the rest
C13_Witness ==
    /\ pc = "returned"
    /\ metrics.computed
    /\ sums.obj_detector_scores.sum_intersection_area_per_region[1] = 3
    /\ sums.obj_detector_scores.sum_union_area_per_region[1] = 6
    /\ \A r \in Regions \ {1} :
          /\ sums.obj_detector_scores.sum_intersection_area_per_region[r] = 0
          /\ sums.obj_detector_scores.sum_union_area_per_region[r] = 0
    /\ metrics.obj_detector_scores.avg_iou = Number(1, 2)

\* C14: a quotient whose denominator is 0 is reported as an explicit "no data"
\* marker, never as nan and never as 0: the IoU of every region whose
\* accumulated union area is 0, and the overall avg_iou when the total union
\* area is 0 (for example when every batch was skipped).
C14_UndefinedRatioIsNoData ==
    LET sum_union == sums.obj_detector_scores.sum_union_area_per_region
    IN metrics.computed =>
          /\ \A r \in Regions :
                sum_union[r] = 0 =>
                    metrics.obj_detector_scores.avg_iou_per_region[r].kind = "no data"
          /\ SumOf(sum_union, Regions) = 0 =>
                metrics.obj_detector_scores.avg_iou.kind = "no data"

IsQuotient(q, numerator, denominator) ==
    /\ q.kind = "number"
    /\ q.num * denominator = q.den * numerator

MicroAveraged(reported, counts) ==
    /\ counts["precision"].tp + counts["precision"].fp > 0 =>
          IsQuotient(reported["precision"], counts["precision"].tp,
                     counts["precision"].tp + counts["precision"].fp)
    /\ counts["recall"].tp + counts["recall"].fn > 0 =>
          IsQuotient(reported["recall"], counts["recall"].tp,
                     counts["recall"].tp + counts["recall"].fn)
    /\ counts["f1"].tp + counts["f1"].fp + counts["f1"].fn > 0 =>
          IsQuotient(reported["f1"], 2 * counts["f1"].tp,
                     2 * counts["f1"].tp + counts["f1"].fp + counts["f1"].fn)

\* C18: the precision, recall and F1 reported for region selection on each of
\* the subsets all, normal and abnormal, and for region abnormality, are those
\* of the positive class, computed from the confusion counts accumulated over
\* the run: precision = TP / (TP + FP), recall = TP / (TP + FN),
\* F1 = 2 TP / (2 TP + FP + FN) on the totals.
C18_MicroAveragedPositiveClass ==
    metrics.computed =>
        /\ \A subset \in Subsets :
              MicroAveraged(metrics.region_selection_scores[subset],
                            sums.region_selection_scores[subset])
        /\ MicroAveraged(metrics.region_abnormal_scores, sums.region_abnormal_scores)

\* scores were computed from the counts of two batches, one with a true and a
\* false positive (precision 1/2), one with a true positive and a true negative
\* (precision 1): the precision reported is 2/3, not the mean 3/4
C18_Witness ==
    /\ pc = "returned"
    /\ metrics.computed
    /\ Len(scores.region_selection_scores) = 2
    /\ sums.region_selection_scores["all"]["precision"]
           = [tp |-> 2, fp |-> 1, fn |-> 0, tn |-> 1]
    /\ metrics.region_selection_scores["all"]["precision"] = Number(2, 3)
    /\ metrics.region_selection_scores["all"]["recall"] = Number(1, 1)

(***************************************************************************)
(* Properties of the selected mask.                                        *)
(***************************************************************************)
\* C16: the selected mask that an evaluation forward pass or generate returns
\* to its caller, next to the detected mask of the call, is a grid of the
\* batch's images and the regions, and it is true only on slots on which the
\* detected mask is true.
C16_SelectedImpliesDetected ==
    (fpc = "done" /\ ~call.training /\ ret.kind = "tuple") =>
        /\ ret.class_detected = call.class_detected
        /\ ret.selected_regions \in Mask(call.n)
        /\ \A s \in Slots(call.n) :
              ret.selected_regions[s[1]][s[2]] => ret.class_detected[s[1]][s[2]]

\* generate returned a result for a batch in which the classifier predicted a
\* region that was not detected, and another that was
C16_Witness ==
    /\ GenerateDone
    /\ ret.kind = "tuple"
    /\ \E s \in Slots(call.n) :
          call.prediction[s[1]][s[2]] /\ ~call.class_detected[s[1]][s[2]]
    /\ TrueSlots(ret.selected_regions) # {}

(***************************************************************************)
(* SpecSelection: an evaluation forward pass or generate, from the result  *)
(* of the region selection on.  The selector hands over any mask: one of   *)
(* the batch's shape, true on detected slots only or not, or one of        *)
(* another shape.                                                          *)
(***************************************************************************)
\* boolean tensors of shape [m x k]
Grid(m, k) == [1..m -> [1..k -> BOOLEAN]]

\* shapes other than [n x 29]: an image more, a region less, transposed
WrongShapes(n) ==
    {<<n + 1, NumRegions>>, <<n, NumRegions - 1>>, <<NumRegions, n>>}
        \ {<<n, NumRegions>>}

HandedMasks(n) ==
    Mask(n) \cup UNION {Grid(shape[1], shape[2]) : shape \in WrongShapes(n)}

\* the detector found every region, none, or the first region of every image
DetectedSamples(n) ==
    {AllTrue(n), AllFalse(n), [i \in 1..n |-> [r \in Regions |-> r = 1]]}

\* top_region_features[selected_regions] as the selector computes it: one
\* vector for every true position of its mask, in row-major order
FeaturesAt(M) ==
    IndexRows(Reshape([i \in DOMAIN M |-> [r \in DOMAIN M[i] |->
                  [tensor |-> "region_features", image |-> i, region |-> r]]]),
              Reshape(M))

SelectionCall(c) ==
    \E entry \in {"forward", "generate"}, pretrain \in BOOLEAN :
    \E n \in BatchSizes : \E d \in DetectedSamples(n), M \in HandedMasks(n) :
        /\ entry = "generate" => ~pretrain
        /\ c = [entry |-> entry, training |-> FALSE,
                pretrain_without_lm_model |-> pretrain, n |-> n,
                class_detected |-> d, selected_regions |-> M,
                selected_region_features |-> FeaturesAt(M)]

InitSelection ==
    /\ OrderIdle
    /\ DedupIdle
    /\ MaskIdle
    /\ LoopIdle
    /\ GenLoopIdle
    /\ SelectionCall(call)
    /\ fpc = "start"
    /\ ret = Unbound
    /\ lm_calls = <<>>

\* model.eval(); model(images, ...), after the selector has returned
EvaluationAfterSelection ==
    /\ fpc = "start"
    /\ call.entry = "forward"
    /\ Return(evaluation_after_selection(
                  call.pretrain_without_lm_model, call.n, call.class_detected,
                  call.selected_regions, call.selected_region_features))

\* model.generate(images, ...), after the selector has returned
GenerateAfterSelection ==
    /\ fpc = "start"
    /\ call.entry = "generate"
    /\ Return(generate_after_selection(
                  call.n, call.class_detected,
                  call.selected_regions, call.selected_region_features))

NextSelection == EvaluationAfterSelection \/ GenerateAfterSelection

SpecSelection == InitSelection /\ [][NextSelection]_vars

\* the mask handed over is not of the batch's shape, or is true on a slot that
\* was not detected
LogicError ==
    \/ call.selected_regions \notin Mask(call.n)
    \/ \E s \in Slots(call.n) :
          call.selected_regions[s[1]][s[2]] /\ ~call.class_detected[s[1]][s[2]]

\* C17: when the selector hands over a mask that is true on an undetected slot
\* or that is not of shape [batch_size x 29], the forward pass (and generate)
\* ends with an error: it returns neither a tuple built from that mask nor the
\* sentinel.
C17_LogicErrorIsFatal ==
    (fpc = "done" /\ LogicError) => ret.kind = "raise"

(***************************************************************************)
(* SpecReport: one iteration of evaluate_language_model, from the call of  *)
(* model.generate on, for a batch with any prediction of the selector.     *)
(***************************************************************************)
InitReport ==
    /\ OrderIdle
    /\ ForwardIdle
    /\ MaskIdle
    /\ LoopIdle
    /\ dpc = "idle"
    /\ report_sentences = <<>>
    /\ deduplicated = <<>>
    /\ similarity \in SimilarityTables(Regions)
    /\ gpc = "generate"
    /\ g_batches_read = 1
    /\ \E n \in BatchSizes : \E d \in DetectedSamples(n), p \in Mask(n) :
          g_batch = TestBatch(1, n, d, p, AllFalse(n))
    /\ g_output = Unbound
    /\ g_exc = "none"
    /\ generated_sentences = <<>>
    /\ generated_reports = <<>>
    /\ removed_similar_generated_sentences = <<>>

NextReport == GenerateReturns \/ AssembleBatch \/ GenFinish

SpecReport == InitReport /\ [][NextReport]_vars

\* the regions of image i that were detected and that the selector predicted
SelectedRegionsOf(i) ==
    {r \in Regions : g_batch.prediction[i][r] /\ g_batch.class_detected[i][r]}

\* the sentence generated for region r of image i of the batch
SentenceOf(i, r) == [batch |-> g_batch.index, image |-> i, region |-> r]

\* the elements of a sequence
Range(f) == {f[k] : k \in DOMAIN f}

ReportRegions == 1..MaxSentences

\* the sentences generated for the regions K of the image, as batch_decode
\* returns them
SentencesOfRegions(K) ==
    LET selected_regions == <<[r \in ReportRegions |-> r \in K]>>
    IN IndexRows([r \in ReportRegions |-> [batch |-> 1, image |-> 1, region |-> r]],
                 Reshape(selected_regions))

InitDedup ==
    /\ OrderIdle
    /\ ForwardIdle
    /\ MaskIdle
    /\ LoopIdle
    /\ GenLoopIdle
    /\ dpc = "start"
    /\ \E K \in SUBSET ReportRegions : report_sentences = SentencesOfRegions(K)
    /\ deduplicated = <<>>
    /\ similarity \in SimilarityTables(ReportRegions)

\* selected_regions of the image, [1 x 29]
SelectedRegionsOfReport ==
    <<[r \in ReportRegions |->
          \E k \in DOMAIN report_sentences : report_sentences[k].region = r]>>

AssembleReportExactDuplicates ==
    /\ dpc = "start"
    /\ deduplicated' = get_generated_and_reference_reports(
                           report_sentences, SelectedRegionsOfReport, similarity,
                           [kind |-> "number", num |-> 1, den |-> 1])
    /\ dpc' = "done"
    /\ UNCHANGED <<report_sentences, similarity, fvars, mvars, lvars, gvars, ovars>>

\* get_generated_and_reference_reports(generated_sentences_for_selected_regions,
\* reference_sentences, selected_regions, sentence_tokenizer,
\* BERTSCORE_SIMILARITY_THRESHOLD)
AssembleReport ==
    /\ dpc = "start"
    /\ deduplicated' = get_generated_and_reference_reports(
                           report_sentences, SelectedRegionsOfReport, similarity,
                           BERTSCORE_SIMILARITY_THRESHOLD)
    /\ dpc' = "done"
    /\ UNCHANGED <<report_sentences, similarity, fvars, mvars, lvars, gvars, ovars>>

NextDedup == AssembleReport

SpecDedup == InitDedup /\ [][NextDedup]_vars

\* the score of two sentences reaches the threshold
NearDuplicates(a, b) ==
    AtLeast(similarity[{a.region, b.region}], BERTSCORE_SIMILARITY_THRESHOLD)

\* C20: in the assembled report the retained sentences are sentences of the
\* report in their original order; a sentence is dropped if and only if an
\* earlier sentence of the report that was retained is a near-duplicate of it;
\* every dropped sentence is recorded once, with an earlier retained
\* near-duplicate and their score; and of [A, B, A'] with A and A'
\* near-duplicates and A and B not, [A, B] is retained and A' is recorded as
\* similar to A.
C20_GreedyNearDuplicateSuppression ==
    dpc = "done" =>
        LET retained == deduplicated.generated_reports[1]
            removed == deduplicated.removed_similar_generated_sentences[1]
            A == [batch |-> 1, image |-> 1, region |-> 1]
            B == [batch |-> 1, image |-> 1, region |-> 2]
            A2 == [batch |-> 1, image |-> 1, region |-> 3]
        IN /\ Range(retained) \subseteq Range(report_sentences)
           /\ \A j, k \in DOMAIN retained :
                  j < k => retained[j].region < retained[k].region
           /\ \A k \in DOMAIN report_sentences :
                  report_sentences[k] \notin Range(retained)
                      <=> \E j \in 1..(k - 1) :
                             /\ report_sentences[j] \in Range(retained)
                             /\ NearDuplicates(report_sentences[j], report_sentences[k])
           /\ Len(retained) + Len(removed) = Len(report_sentences)
           /\ \A k \in DOMAIN removed :
                  /\ removed[k].sentence \in Range(report_sentences) \ Range(retained)
                  /\ removed[k].similar_to \in Range(retained)
                  /\ removed[k].similar_to.region < removed[k].sentence.region
                  /\ removed[k].score
                         = similarity[{removed[k].similar_to.region,
                                       removed[k].sentence.region}]
                  /\ NearDuplicates(removed[k].similar_to, removed[k].sentence)
                  /\ \A j \in DOMAIN removed :
                         removed[j].sentence = removed[k].sentence => j = k
           /\ (/\ report_sentences = <<A, B, A2>>
               /\ NearDuplicates(A, A2)
               /\ ~NearDuplicates(A, B))
                  => /\ retained = <<A, B>>
                     /\ Len(removed) = 1
                     /\ removed[1].sentence = A2
                     /\ removed[1].similar_to = A

\* the report [A, B, A'] was assembled: A' scores 0.9 with A and with B, B is
\* no near-duplicate of A; [A, B] is retained
C20_Witness ==
    /\ dpc = "done"
    /\ Len(report_sentences) = 3
    /\ similarity[{1, 3}] = BERTSCORE_SIMILARITY_THRESHOLD
    /\ similarity[{2, 3}] = BERTSCORE_SIMILARITY_THRESHOLD
    /\ ~AtLeast(similarity[{1, 2}], BERTSCORE_SIMILARITY_THRESHOLD)
    /\ Len(deduplicated.generated_reports[1]) = 2
    /\ deduplicated.removed_similar_generated_sentences[1][1].similar_to.region = 1

(***************************************************************************)
(* SpecDestructured: get_metric_scores with a model whose normal result    *)
(* has the eight items the loop destructures, so that the three update_*   *)
(* calls are reached.  With forward as it is, every normal result ends the *)
(* run at the destructuring (Spec).                                        *)
(***************************************************************************)
\* boxes of one pixel, one per region of every image
OnePixelBoxes(n) == [i \in 1..n |-> [r \in Regions |-> {1}]]

\* a test batch with the ground truth the update_* functions read
TestBatchWithTargets(k, n, d, p, h) ==
    [index |-> k, batch_size |-> n, class_detected |-> d, prediction |-> p,
     region_has_sentence |-> h, image_targets |-> OnePixelBoxes(n),
     region_is_abnormal |-> AllFalse(n)]

\* the result of forward, a normal one carried in the eight items of
\* UnpackTargets, with detections and predicted_abnormal_regions
AsDestructured(value, n) ==
    IF value.kind # "tuple" THEN value
    ELSE [kind |-> "tuple", val |-> 0, items |-> UnpackTargets,
          class_detected |-> value.class_detected,
          selected_regions |-> value.selected_regions,
          output_ids |-> <<>>,
          detections |-> OnePixelBoxes(n),
          predicted_abnormal_regions |-> AllFalse(n)]

\* for num_batch, batch in enumerate(test_loader), over a loader whose batches
\* all have the same size
ReadBatchWithTargets ==
    /\ pc = "loop"
    /\ batches_read < MaxBatches
    /\ \E d \in PredictionSamples(MaxBatchSize), p \in PredictionSamples(MaxBatchSize),
          h \in PredictionSamples(MaxBatchSize) :
          batch' = TestBatchWithTargets(batches_read + 1, MaxBatchSize, d, p, h)
    /\ num_images' = num_images + MaxBatchSize
    /\ batches_read' = batches_read + 1
    /\ before' = [num_images |-> num_images, scores |-> scores]
    /\ e' = "none"
    /\ pc' = "try"
    /\ UNCHANGED <<oom, output, output_of, exc, scores, sums, metrics,
                   fvars, mvars, gvars, ovars, dvars>>

\* output = model(images, image_targets, input_ids, ...) returns
ModelReturnsDestructured ==
    /\ pc = "try"
    /\ output' = AsDestructured(
                     forward(FALSE, FALSE, batch.batch_size, batch.class_detected,
                             batch.prediction, batch.region_has_sentence).ret,
                     batch.batch_size)
    /\ output_of' = batch.index
    /\ pc' = "after_try"
    /\ UNCHANGED <<batches_read, batch, num_images, oom, e, exc, scores, before,
                   sums, metrics,
                   fvars, mvars, gvars, ovars, dvars>>

NextDestructured ==
    \/ ReadBatchWithTargets
    \/ ModelReturnsDestructured
    \/ ModelRaisesOutOfMemory
    \/ ModelRaisesRuntimeError
    \/ ModelRaisesOtherException
    \/ AfterTry
    \/ UnpackAndUpdate
    \/ Finalize

SpecDestructured == Init /\ [][NextDestructured]_vars

C22_TokenRowsMatchFeatureRows ==
    (fpc = "done" /\ call.entry = "forward" /\ ~call.training) =>
        /\ ret.kind = "raise" => ret.items # <<"language model: empty input">>
        /\ \A c \in DOMAIN lm_calls :
              LET invocation == lm_calls[c]
              IN /\ Len(invocation.region_features) >= 1
                 /\ Len(invocation.input_ids) = Len(invocation.region_features)
                 /\ Len(invocation.attention_mask) = Len(invocation.region_features)
                 /\ \A k \in DOMAIN invocation.region_features :
                       /\ invocation.input_ids[k].image
                              = invocation.region_features[k].image
                       /\ invocation.input_ids[k].region
                              = invocation.region_features[k].region
                       /\ invocation.attention_mask[k].image
                              = invocation.region_features[k].image
                       /\ invocation.attention_mask[k].region
                              = invocation.region_features[k].region

\* an evaluation-mode forward invoked the language model on a batch of two
\* images in which a region was selected and a region before it was not
C22_Witness ==
    /\ EvaluationDone
    /\ Len(lm_calls) = 1
    /\ call.n = MaxBatchSize
    /\ \E s \in TrueSlots(ret.selected_regions), t \in Slots(call.n) :
          /\ FlatIndex(t[1], t[2]) < FlatIndex(s[1], s[2])
          /\ ~ret.selected_regions[t[1]][t[2]]
    /\ Len(lm_calls[1].region_features) >= 2

\* C23: a forward pass of a model built with pretrain_without_lm_model never
\* invokes the language model and never returns -1, in training and in
\* evaluation mode and whatever the masks are: it returns the detector loss
\* and the selector loss, and in evaluation mode also the detections, the
\* detected mask of the batch and the selected mask.
C23_PretrainReturnsAfterSelector ==
    (fpc = "done" /\ call.entry = "forward" /\ call.pretrain_without_lm_model) =>
        /\ lm_calls = <<>>
        /\ ~IsSentinel(ret)
        /\ ret.kind = "tuple"
        /\ call.training =>
              ret.items = <<"obj_detector_loss_dict", "classifier_loss_region_selection">>
        /\ ~call.training =>
              /\ ret.items = <<"obj_detector_loss_dict", "classifier_loss_region_selection",
                               "detections", "class_detected", "selected_regions">>
              /\ ret.class_detected = call.class_detected
              /\ TrueSlots(ret.selected_regions) = DetectedAndPredicted

\* an evaluation-mode forward of such a model returned for a batch in which no
\* region was detected, so that no region was selected
C23_Witness ==
    /\ fpc = "done"
    /\ call.entry = "forward"
    /\ call.pretrain_without_lm_model
    /\ ~call.training
    /\ call.class_detected = AllFalse(call.n)
    /\ ret.kind = "tuple"
    /\ TrueSlots(ret.selected_regions) = {}

====
